---- MODULE Spec2Model ----
(***************************************************************************)
(* Model of the travel-route-planner optimisation request                  *)
(* (src/mapbox_matrix.py): TSPSolver.solve_tsp and its strategies, and      *)
(* solve_origin_destination_with_optional_stops_streamlit, which drives     *)
(* one solve_tsp call per subset of the optional stops and ranks the        *)
(* routes.                                                                  *)
(*                                                                          *)
(* Units.  The provider reports metres and seconds; the code divides by     *)
(* 1000 and by 60 and adds floats.  The model keeps the provider's integer  *)
(* metres and seconds in every total (the code's value times 1000, resp.    *)
(* times 60), so sums and comparisons are exact; the report's rounded       *)
(* fields are integers too: hundredths of a kilometre (round(x, 2)) and     *)
(* tenths of a minute (round(x, 1)).  All matrix entries used are multiples *)
(* of 125 m and of 15 s, for which the code's float sums are exact; the     *)
(* averages divide by the number of routes, and their rounding follows the  *)
(* float quotient (RoundFloatQuotient).                                     *)
(***************************************************************************)
EXTENDS Integers, Sequences, FiniteSets, TLC

VARIABLES
    pc,               \* position of the request: "start", "solving", "done"
    origin,           \* argument origin
    destination,      \* argument destination
    optional_stops,   \* argument optional_stops (a list of names)
    has_token,        \* environment: MAPBOX_ACCESS_TOKEN is set
    unknown,          \* environment: the names the geocoder cannot resolve
    world,            \* environment: the provider's distances and durations
    fail_at,          \* environment: the subset number whose matrix request fails (0: none)
    all_combinations, \* local all_combinations
    i,                \* the enumerate() index of the next combination to solve
    all_routes,       \* local all_routes: (route_name, route, num_stops) entries
    calls,            \* log: one record per solve_tsp call made
    geocode_calls,    \* log: number of geocode_location calls made
    matrix_calls,     \* log: number of get_matrix calls made
    fetch_log,        \* log: the location list of every get_matrix call
    result,           \* the returned dictionary
    instance,         \* a direct call of the solver's strategies: its arguments
    answers,          \* a direct call of the solver's strategies: what each returned
    session,          \* the route-planning page: st.session_state and what it refers to
    combo_size        \* local r of lines 864-866: the size of the combinations to add next

vars == <<pc, origin, destination, optional_stops, has_token, unknown, world,
          fail_at, all_combinations, i, all_routes, calls, geocode_calls,
          matrix_calls, fetch_log, result, instance, answers, session,
          combo_size>>

-----------------------------------------------------------------------------
(* Bounds and the environment's value sets *)

MaxStops == 2

StopCap == 10

MatrixCap == 25

BruteForceLimit == 12

Names == {"A", "B", "C", "D"}

Pairs == Names \X Names

\* A symmetric table over Names with a zero diagonal.
SymTable(ab, ac, ad, bc, bd, cd) ==
    [p \in Pairs |->
        IF p[1] = p[2] THEN 0
        ELSE LET s == {p[1], p[2]} IN
             CASE s = {"A", "B"} -> ab
               [] s = {"A", "C"} -> ac
               [] s = {"A", "D"} -> ad
               [] s = {"B", "C"} -> bc
               [] s = {"B", "D"} -> bd
               [] s = {"C", "D"} -> cd]

\* Durations in seconds: A-B 10, A-C 12, A-D 25, B-C 5, B-D 15, C-D 10 minutes.
DurScenario == SymTable(600, 720, 1500, 300, 900, 600)

\* Every leg takes 10.25 minutes.
DurFlat == SymTable(615, 615, 615, 615, 615, 615)

\* Distances in metres, one kilometre per minute of DurScenario.
DistProp == SymTable(10000, 12000, 25000, 5000, 15000, 10000)

\* Distances that disagree with the durations; C -> B is longer than B -> C.
DistAnti ==
    [SymTable(20125, 8000, 20000, 5000, 8000, 15000) EXCEPT ![<<"C", "B">>] = 6000]

DurProfiles == {DurScenario, DurFlat}

DistProfiles == {DistProp, DistAnti}

\* The pairs for which the provider reports null.
Masks ==
    { [nodist |-> {}, nodur |-> {}],
      [nodist |-> {}, nodur |-> {<<"B", "C">>}],
      [nodist |-> {<<"A", "D">>}, nodur |-> {<<"A", "D">>}],
      [nodist |-> {<<"A", "B">>}, nodur |-> {<<"A", "B">>}],
      [nodist |-> Pairs, nodur |-> {}],
      [nodist |-> {}, nodur |-> Pairs] }

Restrict(f, S) == [p \in (DOMAIN f) \cap S |-> f[p]]

MkWorld(du, di, m) ==
    [dist |-> Restrict(di, Pairs \ m.nodist), dur |-> Restrict(du, Pairs \ m.nodur)]

Worlds == {MkWorld(du, di, m) : du \in DurProfiles, di \in DistProfiles, m \in Masks}

\* Distances with ties: B and C are equally far from A and from D, so that
\* A,B,C,D and A,C,B,D are equally long.
DistTied == SymTable(10000, 10000, 25000, 5000, 10000, 10000)

\* The worlds of the direct calls of the strategies.
SolverWorlds == Worlds \cup {MkWorld(DurScenario, DistTied, [nodist |-> {}, nodur |-> {}])}

UnknownSets == {{}, {"B"}, {"A"}}

FailAts == {0, 1, 2}

Destinations == {"D", "A"}

\* No direct call of the strategies is under way.
NoInstance ==
    [locations |-> <<>>, start_location |-> "", end_location |-> "",
     return_to_start |-> FALSE]

NoAnswers == [k \in {} |-> <<>>]

\* The page is not open: no st.session_state exists.
NoSession == [open |-> FALSE]

RECURSIVE SeqsUpTo(_, _)
SeqsUpTo(S, n) ==
    IF n = 0 THEN {<<>>}
    ELSE LET shorter == SeqsUpTo(S, n - 1) IN
         shorter \cup {Append(s, x) : s \in shorter, x \in S}

RECURSIVE Pow2(_)
Pow2(n) == IF n = 0 THEN 1 ELSE 2 * Pow2(n - 1)

-----------------------------------------------------------------------------
(* Route and the solver, src/mapbox_matrix.py 284-573 *)

\* Python's None for an Optional[Route].
None == [ok |-> FALSE, path |-> <<>>, total_distance |-> 0, total_duration |-> 0]

Route(path, total_distance, total_duration) ==
    [ok |-> TRUE, path |-> path, total_distance |-> total_distance,
     total_duration |-> total_duration]

\* lookup.get(a, {}).get(b) is not None
Has(lookup, a, b) == <<a, b>> \in DOMAIN lookup

InList(x, s) == \E k \in 1..Len(s) : s[k] = x

\* [loc for loc in s if loc != x]
Without(s, x) == LET Keep(l) == l # x IN SelectSeq(s, Keep)

RemoveAt(s, k) == SubSeq(s, 1, k - 1) \o SubSeq(s, k + 1, Len(s))

\* itertools.permutations(s): all orderings, lexicographic by position.
RECURSIVE permutations(_)
permutations(s) ==
    IF Len(s) = 0 THEN << <<>> >>
    ELSE LET RECURSIVE from(_)
             from(k) ==
                 IF k > Len(s) THEN <<>>
                 ELSE LET rest == permutations(RemoveAt(s, k)) IN
                      [n \in 1..Len(rest) |-> <<s[k]>> \o rest[n]] \o from(k + 1)
         IN from(1)

\* itertools.combinations(s, r): the r-element selections, lexicographic by position.
RECURSIVE combinations(_, _)
combinations(s, r) ==
    IF r = 0 THEN << <<>> >>
    ELSE IF Len(s) < r THEN <<>>
    ELSE LET with == combinations(Tail(s), r - 1)
             without == combinations(Tail(s), r)
         IN [n \in 1..Len(with) |-> <<Head(s)>> \o with[n]] \o without

\* Mutant of LegSum: range(len(path) - 2), the last leg is not added.
RECURSIVE LegSum_without_last_leg(_, _, _)
LegSum_without_last_leg(path, lookup, k) ==
    IF k >= Len(path) - 1 THEN 0
    ELSE (IF Has(lookup, path[k], path[k + 1]) THEN lookup[<<path[k], path[k + 1]>>] ELSE 0)
         + LegSum_without_last_leg(path, lookup, k + 1)

RECURSIVE LegSum(_, _, _)
LegSum(path, lookup, k) ==
    IF k >= Len(path) THEN 0
    ELSE (IF Has(lookup, path[k], path[k + 1]) THEN lookup[<<path[k], path[k + 1]>>] ELSE 0)
         + LegSum(path, lookup, k + 1)

\* Mutant of _evaluate_route: the check of len(path) < 2 is left out.
_evaluate_route_any_length(path, distance_lookup, duration_lookup) ==
    IF \E k \in 1..(Len(path) - 1) : ~Has(distance_lookup, path[k], path[k + 1])
    THEN None
    ELSE Route(path, LegSum(path, distance_lookup, 1), LegSum(path, duration_lookup, 1))

_evaluate_route(path, distance_lookup, duration_lookup) ==
    IF Len(path) < 2 THEN None
    ELSE IF \E k \in 1..(Len(path) - 1) : ~Has(distance_lookup, path[k], path[k + 1])
         THEN None
    ELSE Route(path, LegSum(path, distance_lookup, 1), LegSum(path, duration_lookup, 1))

\* list.remove(x): drop the first occurrence of x.
RECURSIVE RemoveFirst(_, _)
RemoveFirst(s, x) ==
    IF Len(s) = 0 THEN s
    ELSE IF Head(s) = x THEN Tail(s)
    ELSE <<Head(s)>> \o RemoveFirst(Tail(s), x)

\* Mutant of NearestWalk: distance <= min_distance, the last of the equally
\* near locations is taken.
RECURSIVE NearestWalk_last_of_equals(_, _, _, _)
NearestWalk_last_of_equals(path, current, unvisited, distance_lookup) ==
    IF Len(unvisited) = 0 THEN path
    ELSE LET reach == {k \in 1..Len(unvisited) : Has(distance_lookup, current, unvisited[k])}
             d(k) == distance_lookup[<<current, unvisited[k]>>]
         IN IF reach = {} THEN <<>>
            ELSE LET best == CHOOSE k \in reach :
                                 \A j \in reach : d(k) < d(j) \/ (d(k) = d(j) /\ k >= j)
                     nearest == unvisited[best]
                 IN NearestWalk_last_of_equals(Append(path, nearest), nearest,
                                               RemoveFirst(unvisited, nearest), distance_lookup)

\* The while loop of _solve_tsp_nearest_neighbor (lines 509-525): the walk's
\* path, or <<>> when some step finds no location with a distance entry.
RECURSIVE NearestWalk(_, _, _, _)
NearestWalk(path, current, unvisited, distance_lookup) ==
    IF Len(unvisited) = 0 THEN path
    ELSE LET reach == {k \in 1..Len(unvisited) : Has(distance_lookup, current, unvisited[k])}
             d(k) == distance_lookup[<<current, unvisited[k]>>]
         IN IF reach = {} THEN <<>>
            ELSE LET best == CHOOSE k \in reach :
                                 \A j \in reach : d(k) < d(j) \/ (d(k) = d(j) /\ k <= j)
                     nearest == unvisited[best]
                 IN NearestWalk(Append(path, nearest), nearest,
                                RemoveFirst(unvisited, nearest), distance_lookup)

\* Mutant of _solve_tsp_nearest_neighbor: the walk is evaluated as it stands,
\* the end location and the return leg are not appended.
_solve_tsp_nearest_neighbor_open(locations, distance_lookup, duration_lookup, start_location, end_location, return_to_start) ==
    LET fixed == start_location # ""
        hasEnd == end_location # "" /\ end_location # start_location
        current == IF fixed THEN start_location ELSE locations[1]
        unvisited == IF fixed
                     THEN IF hasEnd
                          THEN Without(Without(locations, start_location), end_location)
                          ELSE Without(locations, start_location)
                     ELSE Tail(locations)
        walked == NearestWalk(<<current>>, current, unvisited, distance_lookup)
    IN IF walked = <<>> THEN None
       ELSE _evaluate_route(walked, distance_lookup, duration_lookup)

_solve_tsp_nearest_neighbor(locations, distance_lookup, duration_lookup, start_location, end_location, return_to_start) ==
    LET fixed == start_location # ""
        hasEnd == end_location # "" /\ end_location # start_location
        current == IF fixed THEN start_location ELSE locations[1]
        unvisited == IF fixed
                     THEN IF hasEnd
                          THEN Without(Without(locations, start_location), end_location)
                          ELSE Without(locations, start_location)
                     ELSE Tail(locations)
        walked == NearestWalk(<<current>>, current, unvisited, distance_lookup)
    IN IF walked = <<>> THEN None
       ELSE LET withEnd == IF end_location # "" /\ end_location # walked[Len(walked)]
                           THEN Append(walked, end_location) ELSE walked
                path == IF return_to_start /\ withEnd[1] # withEnd[Len(withEnd)]
                        THEN Append(withEnd, withEnd[1]) ELSE withEnd
            IN _evaluate_route(path, distance_lookup, duration_lookup)

SeqToSet(s) == {s[k] : k \in 1..Len(s)}

\* Lines 421-426: the strategy that _solve_tsp_brute_force runs.
Strategy(locations) ==
    IF Len(locations) > BruteForceLimit THEN "nearest_neighbor" ELSE "brute_force"

\* The thresholds the specification recommends for the number of free locations.
ExactThreshold == 8

DPThreshold == 12

\* The free locations of an instance: those that are neither the fixed start
\* nor the fixed end.
FreeLocations(locations, start_location, end_location) ==
    IF start_location = "" THEN locations
    ELSE IF end_location # "" /\ end_location # start_location
         THEN Without(Without(locations, start_location), end_location)
         ELSE Without(locations, start_location)

\* What a call that raises gives in place of a route: no route, and the
\* exception's name.
Raised(exception) ==
    [ok |-> FALSE, raised |-> exception, path |-> <<>>, total_distance |-> 0,
     total_duration |-> 0]

\* solver._solve_tsp_held_karp(...) as test_held_karp.py lines 33-46 calls it.
\* TSPSolver (src/mapbox_matrix.py lines 290-623) defines __init__, solve_tsp,
\* _solve_tsp_brute_force, _solve_tsp_nearest_neighbor, _evaluate_route,
\* _print_route_details and _calculate_efficiency and no other method, so the
\* attribute lookup raises AttributeError whatever the arguments are.
_solve_tsp_held_karp(locations, distance_lookup, duration_lookup, start_location, end_location, return_to_start) ==
    Raised("AttributeError")

\* Mutant of CandidatePaths: without a start location the first location of
\* the list is taken for the start.
CandidatePaths_first_start(locations, start_location, end_location, return_to_start) ==
    LET start == IF start_location # "" THEN start_location ELSE locations[1]
        hasEnd == end_location # "" /\ end_location # start
        remaining == IF hasEnd
                     THEN Without(Without(locations, start), end_location)
                     ELSE Without(locations, start)
        perms == permutations(remaining)
    IN [n \in 1..Len(perms) |->
           <<start>> \o perms[n]
           \o (IF hasEnd THEN <<end_location>> ELSE <<>>)
           \o (IF return_to_start THEN <<start>> ELSE <<>>)]

\* Mutant of CandidatePaths: the end location is not taken out of the
\* remaining locations, so it is visited on the way as well.
CandidatePaths_end_among_free(locations, start_location, end_location, return_to_start) ==
    IF start_location # ""
    THEN LET hasEnd == end_location # "" /\ end_location # start_location
             perms == permutations(Without(locations, start_location))
         IN [n \in 1..Len(perms) |->
                <<start_location>> \o perms[n]
                \o (IF hasEnd THEN <<end_location>> ELSE <<>>)
                \o (IF return_to_start THEN <<start_location>> ELSE <<>>)]
    ELSE LET perms == permutations(locations)
         IN [n \in 1..Len(perms) |->
                perms[n] \o (IF return_to_start THEN <<perms[n][1]>> ELSE <<>>)]

\* The candidate paths of _solve_tsp_brute_force in the order the loops build them.
CandidatePaths(locations, start_location, end_location, return_to_start) ==
    IF start_location # ""
    THEN LET hasEnd == end_location # "" /\ end_location # start_location
             remaining == IF hasEnd
                          THEN Without(Without(locations, start_location), end_location)
                          ELSE Without(locations, start_location)
             perms == permutations(remaining)
         IN [n \in 1..Len(perms) |->
                <<start_location>> \o perms[n]
                \o (IF hasEnd THEN <<end_location>> ELSE <<>>)
                \o (IF return_to_start THEN <<start_location>> ELSE <<>>)]
    ELSE LET perms == permutations(locations)
         IN [n \in 1..Len(perms) |->
                perms[n] \o (IF return_to_start THEN <<perms[n][1]>> ELSE <<>>)]

\* Mutant of Better: the loop keeps the candidate of least duration.
Better_by_duration(route, best) ==
    route.ok /\ (~best.ok \/ route.total_duration < best.total_duration)

\* Mutant of Better: route.total_distance <= best_distance, the last of the
\* equally short candidates is kept.
Better_or_equal(route, best) ==
    route.ok /\ (~best.ok \/ route.total_distance <= best.total_distance)

\* if route and route.total_distance < best_distance (best_distance starts at inf)
Better(route, best) ==
    route.ok /\ (~best.ok \/ route.total_distance < best.total_distance)

\* The evaluate-and-keep loop over the candidates from the k-th on.
RECURSIVE KeepBest(_, _, _, _, _)
KeepBest(cands, k, best, distance_lookup, duration_lookup) ==
    IF k > Len(cands) THEN best
    ELSE LET route == _evaluate_route(cands[k], distance_lookup, duration_lookup)
         IN KeepBest(cands, k + 1, IF Better(route, best) THEN route ELSE best,
                     distance_lookup, duration_lookup)

_solve_tsp_brute_force(locations, distance_lookup, duration_lookup, start_location, end_location, return_to_start) ==
    IF Strategy(locations) = "nearest_neighbor"
    THEN _solve_tsp_nearest_neighbor(locations, distance_lookup, duration_lookup,
                                     start_location, end_location, return_to_start)
    ELSE KeepBest(CandidatePaths(locations, start_location, end_location, return_to_start),
                  1, None, distance_lookup, duration_lookup)

\* The geocoding loop of solve_tsp: the locations the geocoder resolves.
ValidLocations(locations, unk) == LET Known(l) == l \notin unk IN SelectSeq(locations, Known)

\* The lookup built from the matrix of one get_matrix call over valid_locations.
Lookup(table, valid_locations) ==
    Restrict(table, SeqToSet(valid_locations) \X SeqToSet(valid_locations))

\* Mutant of solve_tsp: the check for two valid locations is left out.
solve_tsp_unchecked(locations, start_location, end_location, return_to_start, unk, w, fetch_ok) ==
    LET valid_locations == ValidLocations(locations, unk)
        base == [route |-> None, geocoded |-> Len(locations), fetched |-> TRUE,
                 valid |-> valid_locations, raised |-> FALSE]
    IN IF ~fetch_ok THEN base
       ELSE [base EXCEPT
                !.route = _solve_tsp_brute_force(
                              valid_locations,
                              Lookup(w.dist, valid_locations),
                              Lookup(w.dur, valid_locations),
                              start_location, end_location, return_to_start)]

\* Mutant of solve_tsp: the start and the end location are not looked up in
\* the list of locations.
solve_tsp_unvalidated(locations, start_location, end_location, return_to_start, unk, w, fetch_ok) ==
    LET valid_locations == ValidLocations(locations, unk)
        quiet == [route |-> None, geocoded |-> 0, fetched |-> FALSE,
                  valid |-> <<>>, raised |-> FALSE]
        geocoded == [quiet EXCEPT !.geocoded = Len(locations), !.valid = valid_locations]
    IN IF Len(locations) < 2 THEN quiet
       ELSE IF Len(valid_locations) < 2 THEN geocoded
       ELSE IF Len(valid_locations) > MatrixCap THEN [geocoded EXCEPT !.raised = TRUE]
       ELSE IF ~fetch_ok THEN [geocoded EXCEPT !.fetched = TRUE]
       ELSE [geocoded EXCEPT
                !.fetched = TRUE,
                !.route = _solve_tsp_brute_force(
                              valid_locations,
                              Lookup(w.dist, valid_locations),
                              Lookup(w.dur, valid_locations),
                              start_location, end_location, return_to_start)]

\* solve_tsp against the environment (unk, w, fetch_ok): the route returned and
\* the external calls made.  raised: get_matrix raised ValueError.
solve_tsp(locations, start_location, end_location, return_to_start, unk, w, fetch_ok) ==
    LET valid_locations == ValidLocations(locations, unk)
        quiet == [route |-> None, geocoded |-> 0, fetched |-> FALSE,
                  valid |-> <<>>, raised |-> FALSE]
        geocoded == [quiet EXCEPT !.geocoded = Len(locations), !.valid = valid_locations]
    IN IF Len(locations) < 2 THEN quiet
       ELSE IF start_location # "" /\ ~InList(start_location, locations) THEN quiet
       ELSE IF end_location # "" /\ ~InList(end_location, locations) THEN quiet
       ELSE IF Len(valid_locations) < 2 THEN geocoded
       ELSE IF Len(valid_locations) > MatrixCap THEN [geocoded EXCEPT !.raised = TRUE]
       ELSE IF ~fetch_ok THEN [geocoded EXCEPT !.fetched = TRUE]
       ELSE [geocoded EXCEPT
                !.fetched = TRUE,
                !.route = _solve_tsp_brute_force(
                              valid_locations,
                              Lookup(w.dist, valid_locations),
                              Lookup(w.dur, valid_locations),
                              start_location, end_location, return_to_start)]

-----------------------------------------------------------------------------
(* solve_origin_destination_with_optional_stops_streamlit, lines 844-978 *)

\* Lines 864-867: combinations of every size r = 0 .. len(optional_stops).
RECURSIVE CombinationsFrom(_, _)
CombinationsFrom(stops, r) ==
    IF r > Len(stops) THEN <<>>
    ELSE combinations(stops, r) \o CombinationsFrom(stops, r + 1)

\* Mutant of AllCombinations: range(1, len + 1), the empty combination is lost.
AllCombinations_from_one(stops) == CombinationsFrom(stops, 1)

AllCombinations(stops) == CombinationsFrom(stops, 0)

\* Python's round(): half to even.  RoundHalfEven(n, d) is n / d rounded.
RoundHalfEven(n, d) ==
    LET q == n \div d
        r == n % d
    IN IF 2 * r < d THEN q
       ELSE IF 2 * r > d THEN q + 1
       ELSE IF q % 2 = 0 THEN q ELSE q + 1

\* round(metres / 1000, 2), in hundredths of a kilometre
RoundKm(metres) == RoundHalfEven(metres, 10)

\* round(seconds / 60, 1), in tenths of a minute
RoundMin(seconds) == RoundHalfEven(seconds, 6)

\* Mutant of SortPosition: among equal keys the later entry comes first.
SortPosition_later_first(routes, k) ==
    1 + Cardinality({j \in 1..Len(routes) :
            \/ routes[j].route.total_duration < routes[k].route.total_duration
            \/ /\ routes[j].route.total_duration = routes[k].route.total_duration
               /\ j > k})

\* Where list.sort puts the k-th entry: after the entries of smaller key and
\* after the earlier entries of equal key (the sort is stable).
SortPosition(routes, k) ==
    1 + Cardinality({j \in 1..Len(routes) :
            \/ routes[j].route.total_duration < routes[k].route.total_duration
            \/ /\ routes[j].route.total_duration = routes[k].route.total_duration
               /\ j < k})

\* Mutant of SortByDuration: the sort is left out.
SortByDuration_unsorted(routes) == routes

\* all_routes.sort(key=lambda x: x[1].total_duration)
SortByDuration(routes) ==
    LET position == [k \in 1..Len(routes) |-> SortPosition(routes, k)]
    IN [n \in 1..Len(routes) |->
           routes[CHOOSE k \in 1..Len(routes) : position[k] = n]]

\* Mutant of DirectRoute: the fastest route serves as the baseline.
DirectRoute_fastest(sorted) == IF Len(sorted) = 0 THEN None ELSE sorted[1].route

\* Lines 898-902: the first sorted entry with num_stops = 0, or None.
DirectRoute(sorted) ==
    LET zero == {k \in 1..Len(sorted) : sorted[k].num_stops = 0}
    IN IF zero = {} THEN None
       ELSE sorted[CHOOSE k \in zero : \A j \in zero : k <= j].route

\* Mutant of Extra: a route that beats the direct route is reported with 0.
Extra_clamped(total, direct) == IF total > direct THEN total - direct ELSE 0

\* Lines 919-920: the difference with the direct route's total.
Extra(total, direct) == total - direct

\* Lines 907-925: the report entry of the k-th sorted route.
RouteData(sorted, k, direct_route) ==
    LET route == sorted[k].route
        extra == direct_route.ok /\ sorted[k].num_stops > 0
    IN [rank |-> k,
        name |-> sorted[k].name,
        path |-> route.path,
        total_distance_km |-> RoundKm(route.total_distance),
        total_duration_minutes |-> RoundMin(route.total_duration),
        num_stops |-> sorted[k].num_stops,
        stops_included |-> IF Len(route.path) > 2
                           THEN SubSeq(route.path, 2, Len(route.path) - 1) ELSE <<>>,
        extra_distance_km |->
            IF extra THEN RoundKm(Extra(route.total_distance, direct_route.total_distance))
            ELSE 0,
        extra_duration_minutes |->
            IF extra THEN RoundMin(Extra(route.total_duration, direct_route.total_duration))
            ELSE 0]

RouteRankings(sorted, direct_route) ==
    [k \in 1..Len(sorted) |-> RouteData(sorted, k, direct_route)]

\* s[lo] + ... + s[hi]
RECURSIVE SumRange(_, _, _)
SumRange(s, lo, hi) ==
    IF lo > hi THEN 0
    ELSE IF lo = hi THEN s[lo]
    ELSE LET mid == (lo + hi) \div 2
         IN SumRange(s, lo, mid) + SumRange(s, mid + 1, hi)

\* sum(s)
SumSeq(s) == SumRange(s, 1, Len(s))

MinSeq(s) == CHOOSE x \in SeqToSet(s) : \A y \in SeqToSet(s) : x <= y

\* Mutant of MaxSeq: the last entry, as if the list were in its own order.
MaxSeq_last(s) == s[Len(s)]

MaxSeq(s) == CHOOSE x \in SeqToSet(s) : \A y \in SeqToSet(s) : x >= y

\* Number of binary digits of n.
RECURSIVE BitLength(_)
BitLength(n) == IF n = 0 THEN 0 ELSE 1 + BitLength(n \div 2)

\* The long division r / d (r < d) continued for bits binary digits:
\* <<the last digit produced, the remainder left>>.
RECURSIVE DivideBits(_, _, _, _)
DivideBits(r, d, bits, last) ==
    IF bits = 0 THEN <<last, r>>
    ELSE DivideBits((2 * r) % d, d, bits - 1, (2 * r) \div d)

\* The remainder of the long division r / d (0 < r < d) after its first digit 1.
RECURSIVE AfterLeadingBit(_, _)
AfterLeadingBit(r, d) == IF 2 * r >= d THEN 2 * r - d ELSE AfterLeadingBit(2 * r, d)

\* The float quotient x / y of two floats of ratio n / d is the 53-digit
\* binary number nearest to n / d, ties to the even one.  FloatError is the
\* sign of its error: -1 when the float is below n / d, 1 when above, 0 when exact.
FloatError(n, d) ==
    LET whole == n \div d
        r0 == n % d
        t == IF whole > 0 THEN DivideBits(r0, d, 53 - BitLength(whole), whole % 2)
             ELSE DivideBits(AfterLeadingBit(r0, d), d, 52, 1)
    IN IF r0 = 0 THEN 0
       ELSE IF t[2] = 0 THEN 0
       ELSE IF 2 * t[2] < d THEN -1
       ELSE IF 2 * t[2] > d THEN 1
       ELSE IF t[1] = 1 THEN 1 ELSE -1

\* round(x / y, digits) for floats x, y of ratio n / d, in units of 1 / scale
\* (scale = 10^digits): round() rounds the float, so a quotient that is half
\* way goes where the float's error puts it, and half to even when it is exact.
RoundFloatQuotient(n, d, scale) ==
    LET q == (n * scale) \div d
        r == (n * scale) % d
        e == FloatError(n, d)
    IN IF 2 * r < d THEN q
       ELSE IF 2 * r > d THEN q + 1
       ELSE IF e < 0 THEN q
       ELSE IF e > 0 THEN q + 1
       ELSE IF q % 2 = 0 THEN q ELSE q + 1

\* Lines 930-954, for a non-empty sorted list.
SummaryStats(sorted, direct_route) ==
    LET distances == [k \in 1..Len(sorted) |-> sorted[k].route.total_distance]
        durations == [k \in 1..Len(sorted) |-> sorted[k].route.total_duration]
        first == sorted[1].route
        last == sorted[Len(sorted)].route
        base ==
            [fastest_route |-> [duration_minutes |-> RoundMin(first.total_duration),
                                distance_km |-> RoundKm(first.total_distance)],
             slowest_route |-> [duration_minutes |-> RoundMin(last.total_duration),
                                distance_km |-> RoundKm(last.total_distance)],
             average_duration_minutes |->
                 RoundFloatQuotient(SumSeq(durations), 60 * Len(durations), 10),
             average_distance_km |->
                 RoundFloatQuotient(SumSeq(distances), 1000 * Len(distances), 100),
             shortest_route_km |-> RoundKm(MinSeq(distances)),
             longest_route_km |-> RoundKm(MaxSeq(distances))]
        direct ==
            [direct_route |->
                 [duration_minutes |-> RoundMin(direct_route.total_duration),
                  distance_km |-> RoundKm(direct_route.total_distance)],
             max_extra_time_minutes |->
                 RoundMin(MaxSeq(durations) - direct_route.total_duration),
             max_extra_distance_km |->
                 RoundKm(MaxSeq(distances) - direct_route.total_distance)]
    IN IF direct_route.ok THEN base @@ direct ELSE base

\* The value of result before the function returns.
Pending == [pending |-> TRUE]

\* Mutant of Failure: the except clause returns no suggestion.
Failure_without_suggestion(error, suggestion) ==
    [success |-> FALSE, error |-> error]

\* Lines 966-978: the dictionary an except clause returns.
Failure(error, suggestion) ==
    [success |-> FALSE, error |-> error, suggestion |-> suggestion]

ConfigSuggestion == "Please check your Mapbox API key configuration."

RetrySuggestion == "Please try again or check your input data."

\* Lines 37-38 and 966-971: the ValueError MapboxMatrixAPI() raises without a
\* token, as the except clause formats it.
TokenFailure ==
    Failure("Configuration error: Mapbox access token is required. Set MAPBOX_ACCESS_TOKEN environment variable or pass it to the constructor.", ConfigSuggestion)

\* Mutant of Report: a subset without a route fails the request.
Report_all_or_nothing(routes, combos, o, d, stops) ==
    LET sorted == SortByDuration(routes)
        direct_route == DirectRoute(sorted)
    IN IF Len(sorted) < Len(combos)
       THEN Failure("Unexpected error: list index out of range", RetrySuggestion)
       ELSE [success |-> TRUE,
             route_rankings |-> RouteRankings(sorted, direct_route),
             summary_stats |-> SummaryStats(sorted, direct_route),
             total_combinations |-> Len(combos),
             origin |-> o,
             destination |-> d,
             optional_stops |-> stops]

\* Mutant of Report: the statistics are skipped when nothing was solved.
Report_empty_ranking(routes, combos, o, d, stops) ==
    LET sorted == SortByDuration(routes)
        direct_route == DirectRoute(sorted)
    IN [success |-> TRUE,
        route_rankings |-> RouteRankings(sorted, direct_route),
        summary_stats |-> IF Len(sorted) = 0 THEN <<>>
                          ELSE SummaryStats(sorted, direct_route),
        total_combinations |-> Len(combos),
        origin |-> o,
        destination |-> d,
        optional_stops |-> stops]

\* Lines 894-964: the report, or the failure of all_routes[0] on an empty list.
Report(routes, combos, o, d, stops) ==
    LET sorted == SortByDuration(routes)
        direct_route == DirectRoute(sorted)
    IN IF Len(sorted) = 0
       THEN Failure("Unexpected error: list index out of range", RetrySuggestion)
       ELSE [success |-> TRUE,
             route_rankings |-> RouteRankings(sorted, direct_route),
             summary_stats |-> SummaryStats(sorted, direct_route),
             total_combinations |-> Len(combos),
             origin |-> o,
             destination |-> d,
             optional_stops |-> stops]

-----------------------------------------------------------------------------
(* The request as a state machine *)

Init ==
    /\ pc = "start"
    /\ origin = "A"
    /\ destination \in Destinations
    /\ optional_stops \in SeqsUpTo(Names, MaxStops)
    /\ has_token \in BOOLEAN
    /\ unknown \in UnknownSets
    /\ world \in Worlds
    /\ fail_at \in FailAts
    /\ all_combinations = <<>>
    /\ i = 1
    /\ all_routes = <<>>
    /\ calls = <<>>
    /\ geocode_calls = 0
    /\ matrix_calls = 0
    /\ fetch_log = <<>>
    /\ result = Pending
    /\ instance = NoInstance
    /\ answers = NoAnswers
    /\ session = NoSession
    /\ combo_size = 0

\* Lines 858-869: MapboxMatrixAPI() raises ValueError without a token; otherwise
\* the combinations are enumerated.
Begin ==
    /\ pc = "start"
    /\ IF has_token
       THEN /\ pc' = "solving"
            /\ all_combinations' = AllCombinations(optional_stops)
            /\ combo_size' = Len(optional_stops) + 1
            /\ result' = result
       ELSE /\ pc' = "done"
            /\ all_combinations' = all_combinations
            /\ combo_size' = combo_size
            /\ result' = TokenFailure
    /\ UNCHANGED <<instance, answers, session>>
    /\ UNCHANGED <<origin, destination, optional_stops, has_token, unknown, world,
                   fail_at, i, all_routes, calls, geocode_calls, matrix_calls,
                   fetch_log>>

\* Lines 872-892: one iteration of the loop, the solve_tsp call included.
SolveSubset ==
    /\ pc = "solving"
    /\ i <= Len(all_combinations)
    /\ LET combination == all_combinations[i]
           route_locations == <<origin>> \o combination \o <<destination>>
           r == solve_tsp(route_locations, origin, destination, FALSE,
                          unknown, world, fail_at # i)
       IN /\ calls' = Append(calls, [combination |-> combination,
                                     locations |-> route_locations,
                                     valid |-> r.valid,
                                     fetched |-> r.fetched,
                                     route |-> r.route])
          /\ geocode_calls' = geocode_calls + r.geocoded
          /\ matrix_calls' = IF r.fetched THEN matrix_calls + 1 ELSE matrix_calls
          /\ fetch_log' = IF r.fetched THEN Append(fetch_log, r.valid) ELSE fetch_log
          /\ IF r.raised
             THEN /\ pc' = "done"
                  /\ result' = Failure("Configuration error: Maximum 25 coordinates allowed per request",
                                       ConfigSuggestion)
                  /\ UNCHANGED <<i, all_routes>>
             ELSE /\ all_routes' =
                         IF r.route.ok
                         THEN Append(all_routes, [enum |-> i,
                                                  name |-> combination,
                                                  route |-> r.route,
                                                  num_stops |-> Len(combination)])
                         ELSE all_routes
                  /\ i' = i + 1
                  /\ UNCHANGED <<pc, result>>
    /\ UNCHANGED <<instance, answers, session, combo_size>>
    /\ UNCHANGED <<origin, destination, optional_stops, has_token, unknown, world,
                   fail_at, all_combinations>>

\* Lines 894-978: sort, rank, summarise and return.
Finish ==
    /\ pc = "solving"
    /\ i > Len(all_combinations)
    /\ pc' = "done"
    /\ all_routes' = SortByDuration(all_routes)
    /\ result' = Report(all_routes, all_combinations, origin, destination, optional_stops)
    /\ UNCHANGED <<instance, answers, session, combo_size>>
    /\ UNCHANGED <<origin, destination, optional_stops, has_token, unknown, world,
                   fail_at, all_combinations, i, calls, geocode_calls, matrix_calls,
                   fetch_log>>

Next == Begin \/ SolveSubset \/ Finish

Spec == Init /\ [][Next]_vars

\* A request of StopCap + 1 stops, none of which the geocoder resolves, where
\* the provider has no entry from origin to destination: for each subset the
\* names are geocoded and the matrix of origin and destination is requested,
\* and no subset gets a route.
CapStops == [k \in 1..(StopCap + 1) |-> IF k % 2 = 1 THEN "B" ELSE "C"]

InitCap ==
    /\ pc = "start"
    /\ origin = "A"
    /\ destination = "D"
    /\ optional_stops = CapStops
    /\ has_token = TRUE
    /\ unknown = {"B", "C"}
    /\ world = MkWorld(DurScenario, DistProp,
                       [nodist |-> {<<"A", "D">>}, nodur |-> {<<"A", "D">>}])
    /\ fail_at = 0
    /\ all_combinations = <<>>
    /\ i = 1
    /\ all_routes = <<>>
    /\ calls = <<>>
    /\ geocode_calls = 0
    /\ matrix_calls = 0
    /\ fetch_log = <<>>
    /\ result = Pending
    /\ instance = NoInstance
    /\ answers = NoAnswers
    /\ session = NoSession
    /\ combo_size = 0

SpecCap == InitCap /\ [][Next]_vars

-----------------------------------------------------------------------------
(* Direct calls of the strategies on one instance *)

\* The lists of two or more different names.
LocationLists ==
    {l \in SeqsUpTo(Names, Cardinality(Names)) :
        Len(l) >= 2 /\ \A a, b \in 1..Len(l) : a # b => l[a] # l[b]}

\* A list one longer than the brute-force limit: A, then B and C in turn, then D.
LongList ==
    [k \in 1..(BruteForceLimit + 1) |->
        IF k = 1 THEN "A"
        ELSE IF k = BruteForceLimit + 1 THEN "D"
        ELSE IF k % 2 = 0 THEN "B" ELSE "C"]

Instances ==
    {[locations |-> l, start_location |-> st, end_location |-> en, return_to_start |-> r] :
        l \in LocationLists, st \in {""} \cup Names, en \in {""} \cup Names, r \in BOOLEAN}

\* solve_tsp lets a start or an end through only when it is in the list (lines 326-332).
Admissible(inst) ==
    /\ inst.start_location # "" => InList(inst.start_location, inst.locations)
    /\ inst.end_location # "" => InList(inst.end_location, inst.locations)

\* A list of one location, as the strategies can be called with.
ShortInstances ==
    {[locations |-> <<"A">>, start_location |-> st, end_location |-> en,
      return_to_start |-> r] : st \in {"", "A"}, en \in {"", "A"}, r \in BOOLEAN}

LongInstances ==
    {[locations |-> LongList, start_location |-> st, end_location |-> en,
      return_to_start |-> r] : st \in {"", "A"}, en \in {"", "D"}, r \in BOOLEAN}

InitSolver ==
    /\ pc = "call"
    /\ origin = "A"
    /\ destination = "D"
    /\ optional_stops = <<>>
    /\ has_token = TRUE
    /\ unknown = {}
    /\ world \in SolverWorlds
    /\ fail_at = 0
    /\ all_combinations = <<>>
    /\ i = 1
    /\ all_routes = <<>>
    /\ calls = <<>>
    /\ geocode_calls = 0
    /\ matrix_calls = 0
    /\ fetch_log = <<>>
    /\ result = Pending
    /\ instance \in {inst \in Instances : Admissible(inst)} \cup LongInstances
                   \cup ShortInstances
    /\ answers = NoAnswers
    /\ session = NoSession
    /\ combo_size = 0

\* What a strategy is called with: the instance and the lookups solve_tsp
\* builds from the matrix of its locations.
Call(strategy(_, _, _, _, _, _)) ==
    strategy(instance.locations,
             Lookup(world.dist, instance.locations),
             Lookup(world.dur, instance.locations),
             instance.start_location, instance.end_location, instance.return_to_start)

Answered(name) == name \in DOMAIN answers

UnchangedRequest ==
    UNCHANGED <<pc, origin, destination, optional_stops, has_token, unknown, world,
                fail_at, all_combinations, i, all_routes, calls, geocode_calls,
                matrix_calls, fetch_log, result, instance, session,
                combo_size>>

\* _solve_tsp_brute_force, the method solve_tsp calls: the route, and the
\* strategy its first lines picked.
CallBruteForce ==
    /\ pc = "call"
    /\ ~Answered("brute_force")
    /\ answers' = answers @@ [brute_force |-> Call(_solve_tsp_brute_force),
                              strategy |-> Strategy(instance.locations)]
    /\ UnchangedRequest

\* _solve_tsp_nearest_neighbor called on the same instance.
CallNearestNeighbor ==
    /\ pc = "call"
    /\ Answered("brute_force")
    /\ ~Answered("nearest_neighbor")
    /\ answers' = answers @@ [nearest_neighbor |-> Call(_solve_tsp_nearest_neighbor)]
    /\ UnchangedRequest

\* test_held_karp.py lines 31-46: _solve_tsp_held_karp called on the same
\* instance, a fixed start and locations all different.  The call raises, and
\* the test's except clause (line 91) keeps no route.
CallHeldKarp ==
    /\ pc = "call"
    /\ Answered("nearest_neighbor")
    /\ ~Answered("held_karp")
    /\ instance.start_location # ""
    /\ instance.locations \in LocationLists
    /\ answers' = answers @@ [held_karp |-> Call(_solve_tsp_held_karp)]
    /\ UnchangedRequest

NextSolver == CallBruteForce \/ CallNearestNeighbor \/ CallHeldKarp

SpecSolver == InitSolver /\ [][NextSolver]_vars

\* solve_tsp called on its own, with any start and end, on lists of no, one
\* or more locations.
EntryInstances ==
    Instances \cup ShortInstances
        \cup {[locations |-> <<>>, start_location |-> "", end_location |-> "",
               return_to_start |-> r] : r \in BOOLEAN}

EntryWorlds ==
    {MkWorld(DurScenario, di, m) :
        di \in DistProfiles,
        m \in {[nodist |-> {}, nodur |-> {}],
               [nodist |-> {<<"A", "B">>}, nodur |-> {<<"A", "B">>}]}}

InitEntry ==
    /\ pc = "call"
    /\ origin = "A"
    /\ destination = "D"
    /\ optional_stops = <<>>
    /\ has_token = TRUE
    /\ unknown \in UnknownSets
    /\ world \in EntryWorlds
    /\ fail_at \in {0, 1}
    /\ all_combinations = <<>>
    /\ i = 1
    /\ all_routes = <<>>
    /\ calls = <<>>
    /\ geocode_calls = 0
    /\ matrix_calls = 0
    /\ fetch_log = <<>>
    /\ result = Pending
    /\ instance \in EntryInstances
    /\ answers = NoAnswers
    /\ session = NoSession
    /\ combo_size = 0

\* Lines 302-398: one call of solve_tsp on the instance; the matrix fetch
\* fails when fail_at is 1.
CallSolveTsp ==
    /\ pc = "call"
    /\ ~Answered("solve_tsp")
    /\ LET r == solve_tsp(instance.locations, instance.start_location,
                          instance.end_location, instance.return_to_start,
                          unknown, world, fail_at # 1)
       IN /\ answers' = answers @@ [solve_tsp |-> r.route]
          /\ geocode_calls' = geocode_calls + r.geocoded
          /\ matrix_calls' = IF r.fetched THEN matrix_calls + 1 ELSE matrix_calls
          /\ fetch_log' = IF r.fetched THEN Append(fetch_log, r.valid) ELSE fetch_log
    /\ UNCHANGED <<pc, origin, destination, optional_stops, has_token, unknown, world,
                   fail_at, all_combinations, i, all_routes, calls, result, instance,
                   session, combo_size>>

NextEntry == CallSolveTsp

SpecEntry == InitEntry /\ [][NextEntry]_vars

-----------------------------------------------------------------------------
(* Vocabulary of the properties *)

K == Len(optional_stops)

Started == pc # "start" /\ has_token

Succeeded == pc = "done" /\ "route_rankings" \in DOMAIN result

Failed == pc = "done" /\ "error" \in DOMAIN result

Solved(k) == calls[k].route.ok

\* The orderings of a multiset of locations given as a list.
Orderings(free) ==
    LET n == Len(free)
    IN {[k \in 1..n |-> free[f[k]]] :
            f \in {g \in [1..n -> 1..n] : \A a, b \in 1..n : a # b => g[a] # g[b]}}

\* Every path start, an ordering of the other locations, end.
PathsBetween(locations, start, end) ==
    LET Free(l) == l # start /\ l # end
    IN {<<start>> \o p \o <<end>> : p \in Orderings(SelectSeq(locations, Free))}

AllLegs(path, table) == \A k \in 1..(Len(path) - 1) : <<path[k], path[k + 1]>> \in DOMAIN table

Total(path, table) == LegSum(path, table, 1)

\* The stops at the positions I, in list order.
RECURSIVE Pick(_, _, _)
Pick(stops, I, k) ==
    IF k > Len(stops) THEN <<>>
    ELSE (IF k \in I THEN <<stops[k]>> ELSE <<>>) \o Pick(stops, I, k + 1)

Occurrences(list, x) == Cardinality({n \in 1..Len(list) : list[n] = x})

-----------------------------------------------------------------------------
(* C1 *)

\* C1 as stated: the route solve_tsp returns for a subset (fixed start, fixed
\* end, no return leg, brute force) takes no longer than any ordering of the
\* same locations between origin and destination whose legs are all measured.
C1_MinimalDuration ==
    \A k \in 1..Len(calls) :
        Solved(k) /\ origin # destination =>
            \A p \in PathsBetween(calls[k].valid, origin, destination) :
                AllLegs(p, world.dist) /\ AllLegs(p, world.dur) =>
                    calls[k].route.total_duration <= Total(p, world.dur)

\* C1 amended: the route returned is one of the orderings between origin and
\* destination, its totals are the sums of its legs, and its total_distance
\* is no greater than that of any ordering whose legs all have a distance
\* entry (the solver minimises distance, not duration).
C1_MinimalDistance ==
    \A k \in 1..Len(calls) :
        Solved(k) /\ origin # destination =>
            /\ calls[k].route.path \in PathsBetween(calls[k].valid, origin, destination)
            /\ AllLegs(calls[k].route.path, world.dist)
            /\ calls[k].route.total_distance = Total(calls[k].route.path, world.dist)
            /\ \A p \in PathsBetween(calls[k].valid, origin, destination) :
                   AllLegs(p, world.dist) =>
                       calls[k].route.total_distance <= Total(p, world.dist)

\* A solved subset with two orderings of different distance, the route being
\* the shorter and the slower of the two.
C1_Witness ==
    \E k \in 1..Len(calls) :
        /\ Solved(k)
        /\ origin # destination
        /\ \E p \in PathsBetween(calls[k].valid, origin, destination) :
               /\ AllLegs(p, world.dist) /\ AllLegs(p, world.dur)
               /\ Total(p, world.dist) > calls[k].route.total_distance
               /\ Total(p, world.dur) < calls[k].route.total_duration

-----------------------------------------------------------------------------
(* C2 *)

\* C2 as stated: 2^K subsets, each a subsequence of the stop list, no two
\* equal, and total_combinations = 2^K.
C2_NoEqualSubsets ==
    Started =>
        /\ Len(all_combinations) = Pow2(K)
        /\ \A n \in 1..Len(all_combinations) :
               \E I \in SUBSET (1..K) : all_combinations[n] = Pick(optional_stops, I, 1)
        /\ \A m, n \in 1..Len(all_combinations) :
               m # n => all_combinations[m] # all_combinations[n]
        /\ (Succeeded => result.total_combinations = Pow2(K))

\* C2 amended: the enumeration is the 2^K selections of positions of the stop
\* list, each once and the empty one included: every subset is a subsequence
\* of the list, and a subsequence appears as often as there are sets of
\* positions that select it.  So no two subsets are equal when the stop names
\* are pairwise distinct, and total_combinations = 2^K.
C2_Enumeration ==
    Started =>
        /\ Len(all_combinations) = Pow2(K)
        /\ \A n \in 1..Len(all_combinations) :
               \E I \in SUBSET (1..K) : all_combinations[n] = Pick(optional_stops, I, 1)
        /\ \A I \in SUBSET (1..K) :
               Occurrences(all_combinations, Pick(optional_stops, I, 1))
                   = Cardinality({J \in SUBSET (1..K) :
                         Pick(optional_stops, J, 1) = Pick(optional_stops, I, 1)})
        /\ ((\A a, b \in 1..K : a # b => optional_stops[a] # optional_stops[b]) =>
               \A m, n \in 1..Len(all_combinations) :
                   m # n => all_combinations[m] # all_combinations[n])
        /\ (Succeeded => result.total_combinations = Pow2(K))

\* A report over two different stops.
C2_Witness ==
    /\ Succeeded
    /\ K = 2
    /\ optional_stops[1] # optional_stops[2]
    /\ result.total_combinations = 4

-----------------------------------------------------------------------------
(* C3 *)

\* C3: in a report the entries are in non-decreasing order of total duration,
\* the entry at position k has rank k, and there is one entry per solved subset.
C3_RankedByDuration ==
    Succeeded =>
        LET rr == result.route_rankings IN
        /\ Len(rr) = Cardinality({k \in 1..Len(calls) : Solved(k)})
        /\ \A k \in 1..Len(rr) : rr[k].rank = k
        /\ \A k \in 1..(Len(rr) - 1) :
               /\ rr[k].total_duration_minutes <= rr[k + 1].total_duration_minutes
               /\ all_routes[k].route.total_duration <= all_routes[k + 1].route.total_duration

\* A report of at least three entries whose order is not the enumeration order.
C3_Witness ==
    /\ Succeeded
    /\ Len(result.route_rankings) >= 3
    /\ \E j, k \in 1..Len(all_routes) :
           /\ j < k
           /\ all_routes[j].enum > all_routes[k].enum
           /\ result.route_rankings[j].total_duration_minutes
                  < result.route_rankings[k].total_duration_minutes

-----------------------------------------------------------------------------
(* C4 *)

\* C4 as stated: of two entries of equal total duration the one of smaller
\* total distance comes first, then the one with fewer stops, then the one
\* enumerated earlier.
C4_TieBreakByDistance ==
    Succeeded =>
        \A j, k \in 1..Len(all_routes) :
            j < k /\ all_routes[j].route.total_duration = all_routes[k].route.total_duration =>
                \/ all_routes[j].route.total_distance < all_routes[k].route.total_distance
                \/ /\ all_routes[j].route.total_distance = all_routes[k].route.total_distance
                   /\ all_routes[j].num_stops < all_routes[k].num_stops
                \/ /\ all_routes[j].route.total_distance = all_routes[k].route.total_distance
                   /\ all_routes[j].num_stops = all_routes[k].num_stops
                   /\ all_routes[j].enum < all_routes[k].enum

\* C4 amended: of two entries whose routes have equal total duration the one
\* whose subset was enumerated earlier comes first, whatever the distances;
\* it has no more stops than the other.
C4_TieBreakByEnumeration ==
    Succeeded =>
        \A j, k \in 1..Len(all_routes) :
            j < k /\ all_routes[j].route.total_duration = all_routes[k].route.total_duration =>
                /\ all_routes[j].enum < all_routes[k].enum
                /\ all_routes[j].num_stops <= all_routes[k].num_stops

\* Two entries of equal duration, the longer route first.
C4_Witness ==
    /\ Succeeded
    /\ \E j, k \in 1..Len(all_routes) :
           /\ j < k
           /\ all_routes[j].route.total_duration = all_routes[k].route.total_duration
           /\ all_routes[j].route.total_distance > all_routes[k].route.total_distance

-----------------------------------------------------------------------------
(* C5 *)

\* C5 as stated: the provider is called at most once in a request, and that
\* call covers origin, destination and every optional stop.
C5_SingleFetch ==
    /\ matrix_calls <= 1
    /\ \A n \in 1..Len(fetch_log) :
           {origin, destination} \cup SeqToSet(optional_stops) \subseteq SeqToSet(fetch_log[n])

\* C5 amended: the provider is called once for every subset of which at least
\* two locations geocode (up to 2^K calls in a request, not one); each call
\* covers exactly the geocoded locations of its own subset, and only a subset
\* whose own call was made gets a route.
C5_FetchPerSubset ==
    LET Known(l) == l \notin unknown
        Fetched(c) == c.fetched
        fetching == SelectSeq(calls, Fetched)
    IN /\ matrix_calls = Len(fetch_log)
       /\ matrix_calls <= Pow2(K)
       /\ Len(fetch_log) = Len(fetching)
       /\ \A n \in 1..Len(fetching) : fetch_log[n] = SelectSeq(fetching[n].locations, Known)
       /\ \A k \in 1..Len(calls) :
              /\ calls[k].fetched <=> Len(SelectSeq(calls[k].locations, Known)) >= 2
              /\ Solved(k) => calls[k].fetched

\* A request that has called the provider three times.
C5_Witness == pc = "done" /\ matrix_calls >= 3 /\ Succeeded

-----------------------------------------------------------------------------
(* C6 *)

\* C6: a request of more than StopCap stops makes no geocoding call and no
\* matrix request, and ends in a failure.
C6_CapacityExceeded ==
    K > StopCap =>
        /\ geocode_calls = 0
        /\ matrix_calls = 0
        /\ (pc = "done" => Failed)

-----------------------------------------------------------------------------
(* C7 *)

\* C7: a route is never returned over a leg whose distance entry or
\* whose duration entry is missing, and a subset none of whose orderings has
\* all its entries gets no route.
C7_MissingEntryInvalid ==
    \A k \in 1..Len(calls) :
        Solved(k) =>
            /\ AllLegs(calls[k].route.path, world.dist)
            /\ AllLegs(calls[k].route.path, world.dur)
            /\ (origin # destination =>
                   \E p \in PathsBetween(calls[k].valid, origin, destination) :
                       AllLegs(p, world.dist) /\ AllLegs(p, world.dur))

-----------------------------------------------------------------------------
(* C8 *)

\* C8: when some subset gets no route and another gets one, the request
\* returns a report in which every solved subset has exactly one entry and
\* no unsolved subset has any.
C8_UnsolvedSubsetsDropped ==
    /\ pc = "done"
    /\ has_token
    /\ \E k \in 1..Len(calls) : ~Solved(k)
    /\ \E k \in 1..Len(calls) : Solved(k)
    => /\ Succeeded
       /\ result.success
       /\ Len(calls) = Pow2(K)
       /\ Len(result.route_rankings) = Len(all_routes)
       /\ \A k \in 1..Len(calls) :
              Cardinality({j \in 1..Len(all_routes) : all_routes[j].enum = k})
                  = IF Solved(k) THEN 1 ELSE 0
       /\ \A j \in 1..Len(all_routes) :
              /\ result.route_rankings[j].name = calls[all_routes[j].enum].combination
              /\ result.route_rankings[j].path = calls[all_routes[j].enum].route.path

\* A report of a request in which some subset got no route.
C8_Witness ==
    /\ Succeeded
    /\ K = 2
    /\ \E k \in 1..Len(calls) : ~Solved(k)
    /\ Len(result.route_rankings) >= 2

-----------------------------------------------------------------------------
(* C9 *)

\* C9: when no subset gets a route the request returns a failure (success
\* false, an error and a suggestion) and no report.
C9_AllUnsolvedFails ==
    /\ pc = "done"
    /\ has_token
    /\ \A k \in 1..Len(calls) : ~Solved(k)
    => /\ Failed
       /\ ~result.success
       /\ result.error # ""
       /\ result.suggestion # ""
       /\ "route_rankings" \notin DOMAIN result

\* A finished request of several subsets none of which got a route.
C9_Witness ==
    /\ pc = "done"
    /\ has_token
    /\ K = 2
    /\ Len(calls) = 4
    /\ \A k \in 1..Len(calls) : ~Solved(k)

-----------------------------------------------------------------------------
(* C10 *)

\* C10: in a report the zero-stop entry has both extras 0, and when the
\* zero-stop subset got no route every entry has both extras 0.
C10_BaselineExtrasZero ==
    Succeeded =>
        LET rr == result.route_rankings IN
        /\ \A j \in 1..Len(rr) :
               rr[j].num_stops = 0 =>
                   rr[j].extra_duration_minutes = 0 /\ rr[j].extra_distance_km = 0
        /\ (~Solved(1) =>
               \A j \in 1..Len(rr) :
                   rr[j].extra_duration_minutes = 0 /\ rr[j].extra_distance_km = 0)

\* A report without a zero-stop route whose entries differ in duration and in
\* distance.
C10_Witness ==
    /\ Succeeded
    /\ ~Solved(1)
    /\ \E j, k \in 1..Len(result.route_rankings) :
           /\ result.route_rankings[j].total_duration_minutes
                  < result.route_rankings[k].total_duration_minutes
           /\ result.route_rankings[j].total_distance_km
                  < result.route_rankings[k].total_distance_km

-----------------------------------------------------------------------------
(* C11 *)

\* C11: when the zero-stop subset got a route, every entry with at least one
\* stop reports its route's total minus the direct route's total, for the
\* duration (to the nearest tenth of a minute) and for the distance (to the
\* nearest hundredth of a kilometre), with its sign: negative when the route
\* beats the direct route, never 0 in its place.
C11_SignedExtras ==
    Succeeded /\ Solved(1) =>
        LET rr == result.route_rankings
            direct == calls[1].route
        IN \A j \in 1..Len(rr) :
               rr[j].num_stops > 0 =>
                   LET route == calls[all_routes[j].enum].route
                       dt == route.total_duration - direct.total_duration
                       dd == route.total_distance - direct.total_distance
                       Abs(x) == IF x < 0 THEN -x ELSE x
                   IN /\ Abs(dt - 6 * rr[j].extra_duration_minutes) <= 3
                      /\ Abs(dd - 10 * rr[j].extra_distance_km) <= 5
                      /\ (dt <= -6 => rr[j].extra_duration_minutes < 0)
                      /\ (dd <= -10 => rr[j].extra_distance_km < 0)

\* A report with an entry both faster and shorter than the direct route.
C11_Witness ==
    /\ Succeeded
    /\ Solved(1)
    /\ \E j \in 1..Len(result.route_rankings) :
           /\ result.route_rankings[j].num_stops > 0
           /\ result.route_rankings[j].extra_duration_minutes < 0
           /\ result.route_rankings[j].extra_distance_km < 0

-----------------------------------------------------------------------------
(* Vocabulary of the properties of the strategies *)

FixedStartAndEnd == instance.start_location # "" /\ instance.end_location # ""

\* Every path a strategy may return for the instance with its start fixed:
\* the start, an ordering of the free locations, the end if there is one
\* other than the start, the start again if the route returns.
InstancePaths ==
    LET free == FreeLocations(instance.locations, instance.start_location,
                              instance.end_location)
        hasEnd == instance.end_location # ""
                  /\ instance.end_location # instance.start_location
    IN {<<instance.start_location>> \o p
          \o (IF hasEnd THEN <<instance.end_location>> ELSE <<>>)
          \o (IF instance.return_to_start THEN <<instance.start_location>> ELSE <<>>) :
        p \in Orderings(free)}

Measured(path) == AllLegs(path, world.dist) /\ AllLegs(path, world.dur)

-----------------------------------------------------------------------------
(* C12 *)

\* C12 as stated: on an instance with a fixed start and a fixed end, with or
\* without the return leg, on which the brute-force search returns a route,
\* the dynamic programme returns a route too and the two routes have the
\* same total_duration.
C12_SameDuration ==
    /\ Answered("held_karp")
    /\ FixedStartAndEnd
    /\ answers.strategy = "brute_force"
    /\ answers.brute_force.ok
    => /\ answers.held_karp.ok
       /\ answers.brute_force.total_duration = answers.held_karp.total_duration

-----------------------------------------------------------------------------
(* C13 *)

\* C13 as stated: the route of the nearest-neighbour heuristic takes at least
\* as long as the route of the exact search on the same instance.
C13_HeuristicNoFaster ==
    /\ Answered("nearest_neighbor")
    /\ answers.strategy = "brute_force"
    /\ answers.nearest_neighbor.ok
    /\ answers.brute_force.ok
    => answers.nearest_neighbor.total_duration >= answers.brute_force.total_duration

\* C13 amended: on an instance with a fixed start, or without an end, or
\* without the return leg, whenever the heuristic returns a route the exact
\* search returns one too, and the heuristic's total_distance is at least the
\* exact search's total_distance (both strategies go by distance; the
\* durations may be either way round).  With no start, an end and the return
\* leg the heuristic's path visits the end twice and is not comparable.
C13_HeuristicNoShorter ==
    /\ Answered("nearest_neighbor")
    /\ answers.strategy = "brute_force"
    /\ answers.nearest_neighbor.ok
    /\ \/ instance.start_location # ""
       \/ instance.end_location = ""
       \/ ~instance.return_to_start
    => /\ answers.brute_force.ok
       /\ answers.nearest_neighbor.total_distance >= answers.brute_force.total_distance

\* An instance on which the heuristic's route is longer and faster than the
\* exact search's.
C13_Witness ==
    /\ Answered("nearest_neighbor")
    /\ answers.strategy = "brute_force"
    /\ FixedStartAndEnd
    /\ ~instance.return_to_start
    /\ answers.nearest_neighbor.ok
    /\ answers.brute_force.ok
    /\ answers.nearest_neighbor.total_distance > answers.brute_force.total_distance
    /\ answers.nearest_neighbor.total_duration < answers.brute_force.total_duration

-----------------------------------------------------------------------------
(* C14 *)

\* C14: the strategy is chosen by the number M of free locations: the
\* brute-force search when M <= ExactThreshold, the dynamic programme when
\* ExactThreshold < M <= DPThreshold, the heuristic only when M > DPThreshold.
C14_StrategyByFreeCount ==
    Answered("strategy") =>
        LET M == Len(FreeLocations(instance.locations, instance.start_location,
                                   instance.end_location))
        IN answers.strategy =
               IF M <= ExactThreshold THEN "brute_force"
               ELSE IF M <= DPThreshold THEN "held_karp"
               ELSE "nearest_neighbor"

-----------------------------------------------------------------------------
(* C15 *)

\* C15: every route returned names the strategy that produced it.
C15_RouteNamesStrategy ==
    \A name \in (DOMAIN answers) \ {"strategy"} :
        answers[name].ok =>
            /\ "strategy" \in DOMAIN answers[name]
            /\ answers[name].strategy \in {"brute_force", "held_karp", "nearest_neighbor"}

-----------------------------------------------------------------------------
(* C16 *)

\* The route of a strategy on the instance with the start fixed at s.
From(strategy(_, _, _, _, _, _), s) ==
    strategy(instance.locations,
             Lookup(world.dist, instance.locations),
             Lookup(world.dur, instance.locations),
             s, instance.end_location, instance.return_to_start)

\* r is at least as good as the route from any fixed start, by the
\* strategies' own measure, the total distance.
BestOverStarts(r, strategy(_, _, _, _, _, _)) ==
    \A s \in SeqToSet(instance.locations) :
        From(strategy, s).ok => r.ok /\ r.total_distance <= From(strategy, s).total_distance

\* C16 as stated: without a start location the route of the exact search and
\* the route of the heuristic are each the best over all choices of start.
C16_EveryStartTried ==
    /\ Answered("nearest_neighbor")
    /\ answers.strategy = "brute_force"
    /\ instance.start_location = ""
    => /\ BestOverStarts(answers.brute_force, _solve_tsp_brute_force)
       /\ BestOverStarts(answers.nearest_neighbor, _solve_tsp_nearest_neighbor)

\* C16 amended: without a start location the exact search tries every
\* location as the start and its route is the best over all choices of
\* start; the heuristic starts at the first location of the list only, and
\* without an end location its route is the heuristic's route from that start.
C16_ExactTriesEveryStart ==
    /\ Answered("nearest_neighbor")
    /\ answers.strategy = "brute_force"
    /\ instance.start_location = ""
    => /\ BestOverStarts(answers.brute_force, _solve_tsp_brute_force)
       /\ (answers.nearest_neighbor.ok =>
               answers.nearest_neighbor.path[1] = instance.locations[1])
       /\ (instance.end_location = "" =>
               answers.nearest_neighbor
                   = From(_solve_tsp_nearest_neighbor, instance.locations[1]))

\* An instance without a start on which the exact search's route starts
\* elsewhere than the heuristic's, and the heuristic would do better from
\* another start.
C16_Witness ==
    /\ Answered("nearest_neighbor")
    /\ answers.strategy = "brute_force"
    /\ instance.start_location = ""
    /\ instance.end_location = ""
    /\ answers.brute_force.ok
    /\ answers.nearest_neighbor.ok
    /\ answers.brute_force.path[1] # instance.locations[1]
    /\ \E s \in SeqToSet(instance.locations) :
           /\ From(_solve_tsp_nearest_neighbor, s).ok
           /\ From(_solve_tsp_nearest_neighbor, s).total_distance
                  < answers.nearest_neighbor.total_distance

-----------------------------------------------------------------------------
(* The shape of the result *)

IsReport(r) ==
    /\ {"success", "route_rankings", "summary_stats", "total_combinations"}
           \subseteq DOMAIN r
    /\ r.success = TRUE
    /\ "error" \notin DOMAIN r

IsFailure(r) ==
    /\ DOMAIN r = {"success", "error", "suggestion"}
    /\ r.success = FALSE
    /\ r.error # ""
    /\ r.suggestion # ""

\* C17: whatever the token, the geocoder, the matrix provider and the
\* solvability of the subsets, the request is at a step that can be taken
\* until it has returned (no exception leaves it), and what it returns is either a report (success, with
\* route_rankings, summary_stats and total_combinations) or a failure (no
\* success, with a non-empty error and a suggestion), never both or neither.
C17_ReportOrFailure ==
    /\ pc \in {"start", "solving", "done"}
    /\ pc = "solving" => i \in 1..(Len(all_combinations) + 1)
    /\ pc # "done" => result = Pending
    /\ pc = "done" => /\ IsReport(result) \/ IsFailure(result)
                      /\ ~(IsReport(result) /\ IsFailure(result))

\* A request with a token that returned a failure after a matrix fetch had
\* failed and a name had not been resolved.
C17_Witness ==
    /\ pc = "done"
    /\ has_token
    /\ K >= 1
    /\ unknown # {}
    /\ fail_at >= 1
    /\ matrix_calls >= 1
    /\ IsFailure(result)

-----------------------------------------------------------------------------
(* The end-to-end scenario *)

\* The provider answers with the scenario's matrix in both tables: A-B 10,
\* B-C 5, C-D 10, A-C 12, B-D 15, A-D 25, as minutes and as kilometres.
ScenarioWorld == MkWorld(DurScenario, DistProp, [nodist |-> {}, nodur |-> {}])

InScenario ==
    /\ pc = "done"
    /\ has_token
    /\ origin = "A"
    /\ destination = "D"
    /\ optional_stops = <<"B", "C">>
    /\ unknown = {}
    /\ fail_at = 0
    /\ world = ScenarioWorld

\* The report entry of the subset called name.
EntryOf(name) ==
    LET rr == result.route_rankings
    IN rr[CHOOSE k \in 1..Len(rr) : rr[k].name = name]

\* The path and the minutes (in tenths) of the entry of the subset name.
Reported(name, path, tenths) ==
    /\ \E k \in 1..Len(result.route_rankings) : result.route_rankings[k].name = name
    /\ EntryOf(name).path = path
    /\ EntryOf(name).total_duration_minutes = tenths

\* C18: in the scenario the report covers 4 subsets; the direct route A,D
\* takes 25 minutes, the single-stop routes are A,C,D with 22 and A,B,D with
\* 25, the two-stop route is A,B,C,D with 25, and the entry of rank 1 is the
\* 22-minute route A,C,D.
C18_Scenario ==
    InScenario =>
        /\ IsReport(result)
        /\ result.total_combinations = 4
        /\ Len(result.route_rankings) = 4
        /\ Reported(<<>>, <<"A", "D">>, 250)
        /\ Reported(<<"C">>, <<"A", "C", "D">>, 220)
        /\ Reported(<<"B">>, <<"A", "B", "D">>, 250)
        /\ Reported(<<"B", "C">>, <<"A", "B", "C", "D">>, 250)
        /\ result.route_rankings[1].rank = 1
        /\ result.route_rankings[1].path = <<"A", "C", "D">>
        /\ result.route_rankings[1].total_duration_minutes = 220
        /\ EntryOf(<<"C">>).rank = 1

\* The scenario's request has returned, all four subsets solved.
C18_Witness ==
    /\ InScenario
    /\ Len(calls) = 4
    /\ \A k \in 1..4 : Solved(k)
    /\ Succeeded

-----------------------------------------------------------------------------
(* Names the geocoder does not resolve *)

\* The optional stops of the request that the geocoder does not resolve.
UnresolvedStops == SeqToSet(optional_stops) \cap unknown

\* Lines 956-964: the fields of the report.
ReportFields ==
    {"success", "route_rankings", "summary_stats", "total_combinations",
     "origin", "destination", "optional_stops"}

\* The result r has a field, besides the report's own, that holds the names
\* which were not resolved.
NamesUnresolved(r) ==
    \E f \in DOMAIN r \ ReportFields : SeqToSet(r[f]) = UnresolvedStops

\* C19 as stated: when an optional stop is not resolved by the geocoder and
\* the request comes to a report, no reported path holds the unresolved name
\* and the result names the locations that were not resolved.
C19_UnresolvedNamed ==
    Succeeded /\ UnresolvedStops # {} =>
        /\ \A k \in 1..Len(result.route_rankings) :
               SeqToSet(result.route_rankings[k].path) \cap unknown = {}
        /\ NamesUnresolved(result)

-----------------------------------------------------------------------------
(* A request with more locations than the provider takes *)

\* The enumeration of lines 864-866 is followed through the sizes 0 ..
\* FollowedSize.
FollowedSize == 1

\* MatrixCap - 1 optional stops: with origin and destination, MatrixCap + 1
\* locations.
WideStops == [k \in 1..(MatrixCap - 1) |-> IF k % 2 = 1 THEN "B" ELSE "C"]

InitWide ==
    /\ pc = "start"
    /\ origin = "A"
    /\ destination = "D"
    /\ optional_stops = WideStops
    /\ has_token = TRUE
    /\ unknown \in UnknownSets
    /\ world \in Worlds
    /\ fail_at \in FailAts
    /\ all_combinations = <<>>
    /\ i = 1
    /\ all_routes = <<>>
    /\ calls = <<>>
    /\ geocode_calls = 0
    /\ matrix_calls = 0
    /\ fetch_log = <<>>
    /\ result = Pending
    /\ instance = NoInstance
    /\ answers = NoAnswers
    /\ session = NoSession
    /\ combo_size = 0

\* Lines 858-863: the API object and the solver are made (the token is set)
\* and all_combinations is the empty list.
BeginEnumeration ==
    /\ pc = "start"
    /\ has_token
    /\ pc' = "enumerating"
    /\ all_combinations' = <<>>
    /\ combo_size' = 0
    /\ UNCHANGED <<result, instance, answers, session>>
    /\ UNCHANGED <<origin, destination, optional_stops, has_token, unknown, world,
                   fail_at, i, all_routes, calls, geocode_calls, matrix_calls,
                   fetch_log>>

\* Lines 864-869: one iteration of the loop over r, which extends
\* all_combinations by the combinations of r stops; after the last one the
\* loop over the combinations begins.
EnumerateSize ==
    /\ pc = "enumerating"
    /\ combo_size <= FollowedSize
    /\ IF combo_size <= Len(optional_stops)
       THEN /\ all_combinations' = all_combinations \o combinations(optional_stops, combo_size)
            /\ combo_size' = combo_size + 1
            /\ pc' = pc
       ELSE /\ pc' = "solving"
            /\ UNCHANGED <<all_combinations, combo_size>>
    /\ UNCHANGED <<result, instance, answers, session>>
    /\ UNCHANGED <<origin, destination, optional_stops, has_token, unknown, world,
                   fail_at, i, all_routes, calls, geocode_calls, matrix_calls,
                   fetch_log>>

NextWide == BeginEnumeration \/ EnumerateSize

SpecWide == InitWide /\ [][NextWide]_vars

\* C20 as stated: a request whose locations are more than the provider's cap
\* fails fast: once past its first line it is over, with a failure, and no
\* subset has been solved and no matrix request sent.
C20_FailsBeforeSolving ==
    (Len(optional_stops) + 2 > MatrixCap /\ pc # "start") =>
        /\ pc = "done"
        /\ IsFailure(result)
        /\ calls = <<>>
        /\ matrix_calls = 0

-----------------------------------------------------------------------------
(* The summary against the ranking *)

SetMin(S) == CHOOSE x \in S : \A y \in S : x <= y

SetMax(S) == CHOOSE x \in S : \A y \in S : x >= y

\* The values of a field over the entries of the ranking.
Column(field) ==
    {result.route_rankings[k][field] : k \in 1..Len(result.route_rankings)}

\* C21: in every report the summary agrees with the ranking: fastest_route
\* has the least and slowest_route the greatest duration of all entries,
\* shortest_route_km and longest_route_km are the least and the greatest
\* distance of all entries, and when there is a baseline the maximum extra
\* time and distance are the greatest extra duration and extra distance of
\* all entries, and are not negative.
C21_SummaryMatchesRanking ==
    Succeeded =>
        LET ss == result.summary_stats
        IN /\ ss.fastest_route.duration_minutes = SetMin(Column("total_duration_minutes"))
           /\ ss.slowest_route.duration_minutes = SetMax(Column("total_duration_minutes"))
           /\ ss.shortest_route_km = SetMin(Column("total_distance_km"))
           /\ ss.longest_route_km = SetMax(Column("total_distance_km"))
           /\ ("direct_route" \in DOMAIN ss) = (0 \in Column("num_stops"))
           /\ "direct_route" \in DOMAIN ss =>
                  /\ ss.max_extra_time_minutes = SetMax(Column("extra_duration_minutes"))
                  /\ ss.max_extra_distance_km = SetMax(Column("extra_distance_km"))
                  /\ ss.max_extra_time_minutes >= 0
                  /\ ss.max_extra_distance_km >= 0

\* A report with a baseline, with a route that beats the baseline and a route
\* that is longer, where the longest route is not the slowest one.
C21_Witness ==
    /\ Succeeded
    /\ "direct_route" \in DOMAIN result.summary_stats
    /\ Len(result.route_rankings) >= 3
    /\ SetMin(Column("extra_duration_minutes")) < 0
    /\ result.summary_stats.max_extra_distance_km > 0
    /\ result.summary_stats.longest_route_km
           # result.summary_stats.slowest_route.distance_km

-----------------------------------------------------------------------------
(* The steps of the heuristic *)

\* The position of a name in the instance's list of locations.
PositionOf(u) == CHOOSE k \in 1..Len(instance.locations) : instance.locations[k] = u

\* What the heuristic appends after a walk that stopped at last: the end if
\* it is another location, then the start if the route returns and does not
\* already stop there.
Closing(last) ==
    LET toEnd == IF instance.end_location # "" /\ instance.end_location # last
                 THEN <<instance.end_location>> ELSE <<>>
        stop == IF toEnd = <<>> THEN last ELSE instance.end_location
    IN toEnd \o (IF instance.return_to_start /\ instance.start_location # stop
                 THEN <<instance.start_location>> ELSE <<>>)

\* The path p starts at the fixed start, then at each step goes to the free
\* location not yet visited that is nearest by the table, the first in the
\* list among equals, until all are visited, and only then closes.
GreedyBy(p, table) ==
    LET free == FreeLocations(instance.locations, instance.start_location,
                              instance.end_location)
        n == Len(free)
    IN /\ Len(p) >= n + 1
       /\ p[1] = instance.start_location
       /\ \A k \in 1..n :
              LET rest == SeqToSet(free) \ {p[j] : j \in 2..k}
              IN /\ p[k + 1] \in rest
                 /\ Has(table, p[k], p[k + 1])
                 /\ \A u \in rest :
                        Has(table, p[k], u) =>
                            \/ table[<<p[k], p[k + 1]>>] < table[<<p[k], u>>]
                            \/ /\ table[<<p[k], p[k + 1]>>] = table[<<p[k], u>>]
                               /\ PositionOf(p[k + 1]) <= PositionOf(u)
       /\ SubSeq(p, n + 2, Len(p)) = Closing(p[n + 1])

\* The heuristic has answered an instance with a fixed start and locations
\* all different, with a route.
HeuristicRouted ==
    /\ Answered("nearest_neighbor")
    /\ instance.start_location # ""
    /\ instance.locations \in LocationLists
    /\ answers.nearest_neighbor.ok

\* C22 as stated: from the fixed start the heuristic moves each time to the
\* unvisited free location with the smallest duration from the current one,
\* the first in input order among equals, and appends the end and the return
\* leg after all free locations are visited.
C22_NearestByDuration ==
    HeuristicRouted => GreedyBy(answers.nearest_neighbor.path, world.dur)

\* C22 amended: from the fixed start the heuristic moves each time to the
\* unvisited free location with the smallest distance from the current one,
\* the first in input order among equals, and appends the end and the return
\* leg after all free locations are visited.
C22_NearestByDistance ==
    HeuristicRouted => GreedyBy(answers.nearest_neighbor.path, world.dist)

\* A route of the heuristic over two free locations equally far from the
\* start, the later of which is nearer in time, closed by the end and the
\* return leg.
C22_Witness ==
    /\ HeuristicRouted
    /\ instance.end_location # ""
    /\ instance.end_location # instance.start_location
    /\ instance.return_to_start
    /\ LET p == answers.nearest_neighbor.path
       IN /\ Len(p) = 5
          /\ Has(world.dist, p[1], p[3])
          /\ Has(world.dur, p[1], p[3])
          /\ Has(world.dur, p[1], p[2])
          /\ world.dist[<<p[1], p[2]>>] = world.dist[<<p[1], p[3]>>]
          /\ world.dur[<<p[1], p[3]>>] < world.dur[<<p[1], p[2]>>]

-----------------------------------------------------------------------------
(* The totals of a route *)

\* The sum of the entries the table has for the consecutive pairs of path.
EntrySum(path, table) ==
    LET legs == {k \in 1..(Len(path) - 1) : Has(table, path[k], path[k + 1])}
        RECURSIVE Sum(_)
        Sum(S) == IF S = {} THEN 0
                  ELSE LET k == CHOOSE x \in S : TRUE
                       IN table[<<path[k], path[k + 1]>>] + Sum(S \ {k})
    IN Sum(legs)

\* The strategies of the source that have answered.
AnsweredStrategies == {"brute_force", "nearest_neighbor"} \cap DOMAIN answers

\* C23: every route the brute-force search or the heuristic returns has a
\* path of at least two locations with a distance entry for every consecutive
\* pair, its total_distance is the sum of these distance entries and its
\* total_duration the sum of the duration entries of its consecutive pairs;
\* a list of one location without a return leg gets no route.
C23_TotalsAreSums ==
    \A name \in AnsweredStrategies :
        LET r == answers[name]
        IN /\ r.ok =>
                 /\ Len(r.path) >= 2
                 /\ AllLegs(r.path, world.dist)
                 /\ r.total_distance = EntrySum(r.path, world.dist)
                 /\ r.total_duration = EntrySum(r.path, world.dur)
           /\ Len(instance.locations) < 2 /\ ~instance.return_to_start => ~r.ok

\* Both strategies returned a route of three legs or more, with different
\* totals, over a leg that has no duration entry.
C23_Witness ==
    /\ Answered("nearest_neighbor")
    /\ answers.brute_force.ok
    /\ answers.nearest_neighbor.ok
    /\ Len(answers.brute_force.path) >= 4
    /\ answers.brute_force.total_distance # answers.nearest_neighbor.total_distance
    /\ ~AllLegs(answers.brute_force.path, world.dur)
    /\ answers.brute_force.total_duration > 0

-----------------------------------------------------------------------------
(* The shape of the exact search's candidates *)

\* The candidates of the exact search on the instance.
InstanceCandidates ==
    CandidatePaths(instance.locations, instance.start_location,
                   instance.end_location, instance.return_to_start)

\* p is the start, then every free location exactly once, then the end if
\* one is given that is not the start, then the start again exactly when the
\* route returns.
HasShape(p) ==
    LET hasEnd == instance.end_location # ""
                  /\ instance.end_location # instance.start_location
        free == SeqToSet(instance.locations)
                   \ ({instance.start_location}
                         \cup (IF hasEnd THEN {instance.end_location} ELSE {}))
        n == Cardinality(free)
    IN /\ Len(p) = 1 + n + (IF hasEnd THEN 1 ELSE 0)
                      + (IF instance.return_to_start THEN 1 ELSE 0)
       /\ p[1] = instance.start_location
       /\ {p[k] : k \in 2..(n + 1)} = free
       /\ hasEnd => p[n + 2] = instance.end_location
       /\ instance.return_to_start => p[Len(p)] = instance.start_location

\* The exact search has answered an instance with a fixed start and
\* locations all different.
ExactFromStart ==
    /\ Answered("brute_force")
    /\ answers.strategy = "brute_force"
    /\ instance.start_location # ""
    /\ instance.locations \in LocationLists

\* C24: with a fixed start and locations all different, every candidate of
\* the exact search, and the route it returns, is the start, a permutation of
\* the free locations, the end if given and other than the start, and the
\* start again exactly when return_to_start is set; every ordering of the
\* free locations is a candidate, once.
C24_CandidateShape ==
    ExactFromStart =>
        /\ \A k \in 1..Len(InstanceCandidates) : HasShape(InstanceCandidates[k])
        /\ SeqToSet(InstanceCandidates) = InstancePaths
        /\ Len(InstanceCandidates) = Cardinality(InstancePaths)
        /\ answers.brute_force.ok =>
               /\ HasShape(answers.brute_force.path)
               /\ answers.brute_force.path \in SeqToSet(InstanceCandidates)

\* A route of the exact search from a fixed start over two free locations to
\* a fixed end and back to the start.
C24_Witness ==
    /\ ExactFromStart
    /\ instance.end_location # ""
    /\ instance.end_location # instance.start_location
    /\ instance.return_to_start
    /\ Len(instance.locations) = 4
    /\ answers.brute_force.ok
    /\ Len(answers.brute_force.path) = 5

-----------------------------------------------------------------------------
(* The preconditions of solve_tsp *)

\* The call does not meet what solve_tsp asks of its arguments.
Rejected ==
    \/ Len(instance.locations) < 2
    \/ instance.start_location # ""
          /\ ~InList(instance.start_location, instance.locations)
    \/ instance.end_location # ""
          /\ ~InList(instance.end_location, instance.locations)

\* C25: solve_tsp returns no route and makes no geocoding call and no matrix
\* fetch when locations has fewer than 2 entries, when a given start is not
\* in locations, or when a given end is not in locations.
C25_RejectedQuietly ==
    Answered("solve_tsp") /\ Rejected =>
        /\ ~answers.solve_tsp.ok
        /\ geocode_calls = 0
        /\ matrix_calls = 0
        /\ fetch_log = <<>>

\* A call with a start that is not in the list, over locations that all
\* resolve and a provider that answers, has returned.
C25_Witness ==
    /\ Answered("solve_tsp")
    /\ Len(instance.locations) >= 3
    /\ instance.start_location # ""
    /\ ~InList(instance.start_location, instance.locations)
    /\ instance.end_location = ""
    /\ unknown = {}
    /\ fail_at = 0
    /\ world = ScenarioWorld
    /\ geocode_calls = 0

-----------------------------------------------------------------------------
(* The choice of the exact search *)

\* p comes no later than q in the enumeration of the permutations, which is
\* lexicographic by the positions of the locations in the list.
EnumeratedBefore(p, q) ==
    \/ p = q
    \/ \E k \in 1..Len(p) :
          /\ \A j \in 1..(k - 1) : p[j] = q[j]
          /\ PositionOf(p[k]) < PositionOf(q[k])

\* The candidates of the instance all of whose consecutive pairs have a
\* distance entry.
ValidCandidates ==
    {p \in SeqToSet(InstanceCandidates) : Len(p) >= 2 /\ AllLegs(p, world.dist)}

\* C26: the exact search returns no route when no candidate has all its
\* distance entries; otherwise it returns, of the candidates that have them,
\* one of minimum total distance, and of those of minimum distance the first
\* in the enumeration of the permutations.
C26_FirstShortest ==
    Answered("brute_force") /\ answers.strategy = "brute_force" =>
        LET r == answers.brute_force
        IN IF ValidCandidates = {} THEN ~r.ok
           ELSE /\ r.ok
                /\ r.path \in ValidCandidates
                /\ r.total_distance = EntrySum(r.path, world.dist)
                /\ \A p \in ValidCandidates :
                       \/ r.total_distance < EntrySum(p, world.dist)
                       \/ /\ r.total_distance = EntrySum(p, world.dist)
                          /\ EnumeratedBefore(r.path, p)

\* The exact search chose between two candidates of the same minimum
\* distance, while another candidate was longer.
C26_Witness ==
    /\ Answered("brute_force")
    /\ answers.strategy = "brute_force"
    /\ answers.brute_force.ok
    /\ \E p \in ValidCandidates :
           /\ p # answers.brute_force.path
           /\ EntrySum(p, world.dist) = answers.brute_force.total_distance
    /\ \E p \in ValidCandidates :
           EntrySum(p, world.dist) > answers.brute_force.total_distance

-----------------------------------------------------------------------------
(* The end of a route *)

\* C27: when an end location is given and the route does not return to the
\* start, every route of the brute-force search and of the heuristic, with
\* or without a fixed start, has the end location as its last element and
\* holds it exactly once.
C27_EndsAtEnd ==
    \A name \in AnsweredStrategies :
        /\ instance.end_location # ""
        /\ ~instance.return_to_start
        /\ answers[name].ok
        => LET path == answers[name].path
           IN /\ path[Len(path)] = instance.end_location
              /\ Occurrences(path, instance.end_location) = 1

-----------------------------------------------------------------------------
(* The entries of the ranking against their paths *)

\* C28: every entry of the ranking has a path from the origin to the
\* destination, its num_stops is the number of stops_included and of the
\* locations between the ends of the path, and stops_included holds exactly
\* the stops its name lists, also when a stop is not resolved or repeats the
\* origin, the destination or another stop.
C28_EntryMatchesPath ==
    Succeeded =>
        \A k \in 1..Len(result.route_rankings) :
            LET e == result.route_rankings[k]
            IN /\ e.path[1] = origin
               /\ e.path[Len(e.path)] = destination
               /\ e.num_stops = Len(e.stops_included)
               /\ e.num_stops = Len(e.path) - 2
               /\ \A x \in Names :
                      Occurrences(e.stops_included, x) = Occurrences(e.name, x)

-----------------------------------------------------------------------------
(* The route-planning page: src/app.py, show_route_planning, save_route and
   load_route.  st.session_state is one record.  A Python list is an object:
   session.stops and session.saved_route.stops are addresses into
   session.heap, and two addresses that are equal name the same list.  A stop
   is the dictionary {"location", "type", "id"}; "type" is always "Optional"
   and "id" is never read, so a stop is modelled by its "location". *)

\* The texts the user types into the two text inputs.
OriginTexts == {"A"}

DestinationTexts == {"D"}

NewStopTexts == {"", "B"}

Addresses == {1, 2}

\* No saved_route attribute yet.
NoRoute == [origin |-> "", destination |-> "", stops |-> 0]

\* Lines 69-75: the three keys the script creates on its first run.  The
\* field last is history: the widget handled by the last run, and how.
OpenSession ==
    [open |-> TRUE, origin |-> "", destination |-> "", stops |-> 1,
     heap |-> [a \in Addresses |-> <<>>],
     has_saved |-> FALSE, saved_route |-> NoRoute,
     calculate_tsp |-> FALSE, tsp_origin |-> "", tsp_destination |-> "",
     tsp_optional_stops |-> <<>>,
     last |-> "open"]

\* st.session_state.stops, the list itself.
Stops(s) == s.heap[s.stops]

\* st.session_state.saved_route["stops"], the list itself.
SavedStops(s) == s.heap[s.saved_route.stops]

\* The lists something still refers to.
Live(s) == {s.stops} \cup (IF s.has_saved THEN {s.saved_route.stops} ELSE {})

\* Lists nothing refers to are gone.
Collect(s) == [s EXCEPT !.heap = [a \in Addresses |-> IF a \in Live(s) THEN s.heap[a] ELSE <<>>]]

\* The address of a newly created list: one the saved route does not hold.
FreshList(s) == CHOOSE a \in Addresses : (s.has_saved => a # s.saved_route.stops) /\ \A b \in Addresses : (s.has_saved => b # s.saved_route.stops) => a <= b

\* Lines 103-110: the origin text input returns the typed text and the script
\* stores it.
origin_input(s, text) == [s EXCEPT !.origin = text, !.last = "type"]

\* Lines 112-120: the same for the destination.
destination_input(s, text) == [s EXCEPT !.destination = text, !.last = "type"]

\* Lines 139-152 without the length test of line 140.
add_stop_btn_uncapped(s, new_stop) ==
    IF new_stop # ""
    THEN [s EXCEPT !.heap[s.stops] = Append(@, new_stop), !.last = "add"]
    ELSE IF Len(Stops(s)) >= StopCap
         THEN [s EXCEPT !.last = "add_full"]
         ELSE [s EXCEPT !.last = "add_empty"]

\* Lines 139-152: the Add Stop button.  append changes the list in place.
add_stop_btn(s, new_stop) ==
    IF new_stop # "" /\ Len(Stops(s)) < StopCap
    THEN [s EXCEPT !.heap[s.stops] = Append(@, new_stop), !.last = "add"]
    ELSE IF Len(Stops(s)) >= StopCap
         THEN [s EXCEPT !.last = "add_full"]
         ELSE [s EXCEPT !.last = "add_empty"]

\* list.pop(k) for a 0-based k, as a 1-based position.
Pop(list, k) == [j \in 1..(Len(list) - 1) |-> IF j < k THEN list[j] ELSE list[j + 1]]

\* Lines 172-174: the Remove button of stop k.  pop changes the list in place.
remove_btn(s, k) == [s EXCEPT !.heap[s.stops] = Pop(@, k), !.last = "remove"]

\* Lines 189-191: Clear All Stops binds the key to a new empty list.
clear_all_stops(s) ==
    LET a == FreshList(s)
    IN Collect([s EXCEPT !.stops = a, !.heap[a] = <<>>, !.last = "clear"])

\* Lines 445-455: save_route.  The dictionary holds the strings and the list
\* st.session_state.stops itself, no copy of it.
save_route(s) ==
    Collect([s EXCEPT !.has_saved = TRUE,
                      !.saved_route = [origin |-> s.origin, destination |-> s.destination,
                                       stops |-> s.stops],
                      !.last = "save"])

\* Lines 457-466 and the rerun's lines 103-120: load_route.  shown_origin and
\* shown_destination are what the keyed text inputs return on the rerun.
load_route(s, shown_origin, shown_destination) ==
    IF s.has_saved
    THEN Collect([s EXCEPT !.origin = shown_origin, !.destination = shown_destination,
                           !.stops = s.saved_route.stops, !.last = "load"])
    ELSE [s EXCEPT !.last = "load_none"]

\* What a keyed text input can return on the rerun after load_route wrote
\* loaded under its value: the loaded text where the value makes a new
\* widget, the text the widget held where the key alone identifies it.
Shown(loaded, held) == {loaded, held}

\* Lines 202-216: the Calculate button copies the stops' locations.
calculate_btn(s) ==
    IF s.origin # "" /\ s.destination # ""
    THEN IF Stops(s) # <<>>
         THEN [s EXCEPT !.calculate_tsp = TRUE, !.tsp_origin = s.origin,
                        !.tsp_destination = s.destination,
                        !.tsp_optional_stops = Stops(s), !.last = "calculate"]
         ELSE [s EXCEPT !.last = "calculate_no_stops"]
    ELSE [s EXCEPT !.last = "calculate_no_ends"]

\* Lines 318-321: the Try Again button, shown under a failed request, clears
\* calculate_tsp.
try_again_btn(s) == [s EXCEPT !.calculate_tsp = FALSE, !.last = "again"]

\* The first run of the script: the page with nothing entered, no request
\* made yet, and no MAPBOX_ACCESS_TOKEN in the environment.
InitSession ==
    /\ pc = "page"
    /\ origin = "A"
    /\ destination = "D"
    /\ optional_stops = <<>>
    /\ has_token = FALSE
    /\ unknown = {}
    /\ world = ScenarioWorld
    /\ fail_at = 0
    /\ all_combinations = <<>>
    /\ i = 1
    /\ all_routes = <<>>
    /\ calls = <<>>
    /\ geocode_calls = 0
    /\ matrix_calls = 0
    /\ fetch_log = <<>>
    /\ result = Pending
    /\ instance = NoInstance
    /\ answers = NoAnswers
    /\ session = OpenSession
    /\ combo_size = 0

\* Lines 220-221 and 236-241: a run that reaches the end of the page with
\* calculate_tsp set calls show_tsp_results, which makes the request for
\* tsp_origin, tsp_destination and tsp_optional_stops.  Without a token the
\* request is over at MapboxMatrixAPI() (Begin): it returns TokenFailure and
\* has geocoded and fetched nothing.
ShowPage ==
    /\ ~has_token
    /\ result' = IF session'.calculate_tsp THEN TokenFailure ELSE result
    /\ UNCHANGED <<pc, origin, destination, optional_stops, has_token, unknown, world,
                   fail_at, all_combinations, i, all_routes, calls, geocode_calls,
                   matrix_calls, fetch_log, instance, answers, combo_size>>

TypeOrigin ==
    /\ pc = "page"
    /\ \E text \in OriginTexts \ {session.origin} : session' = origin_input(session, text)
    /\ ShowPage

TypeDestination ==
    /\ pc = "page"
    /\ \E text \in DestinationTexts \ {session.destination} : session' = destination_input(session, text)
    /\ ShowPage

AddStop ==
    /\ pc = "page"
    /\ \E new_stop \in NewStopTexts : session' = add_stop_btn(session, new_stop)
    /\ ShowPage

\* A Remove button exists for every stop the page displays.
RemoveStop ==
    /\ pc = "page"
    /\ \E k \in 1..Len(Stops(session)) : session' = remove_btn(session, k)
    /\ ShowPage

ClearAllStops ==
    /\ pc = "page"
    /\ session' = clear_all_stops(session)
    /\ ShowPage

SaveRoute ==
    /\ pc = "page"
    /\ session' = save_route(session)
    /\ ShowPage

LoadRoute ==
    /\ pc = "page"
    /\ \E o \in Shown(session.saved_route.origin, session.origin) :
       \E d \in Shown(session.saved_route.destination, session.destination) :
           session' = load_route(session, o, d)
    /\ ShowPage

Calculate ==
    /\ pc = "page"
    /\ session' = calculate_btn(session)
    /\ ShowPage

\* The run that handles Try Again has made the request before it reaches the
\* button; the rerun makes none.
TryAgain ==
    /\ pc = "page"
    /\ ~has_token
    /\ session.calculate_tsp
    /\ IsFailure(result)
    /\ session' = try_again_btn(session)
    /\ result' = TokenFailure
    /\ UNCHANGED <<pc, origin, destination, optional_stops, has_token, unknown, world,
                   fail_at, all_combinations, i, all_routes, calls, geocode_calls,
                   matrix_calls, fetch_log, instance, answers, combo_size>>

NextSession ==
    \/ TypeOrigin
    \/ TypeDestination
    \/ AddStop
    \/ RemoveStop
    \/ ClearAllStops
    \/ SaveRoute
    \/ LoadRoute
    \/ Calculate
    \/ TryAgain

SpecSession == InitSession /\ [][NextSession]_vars

-----------------------------------------------------------------------------
(* C29: the page never holds more than ten stops *)

\* The outcomes of a run that handled the Add Stop button.
AddOutcomes == {"add", "add_full", "add_empty"}

\* Every list the page holds or hands over has at most StopCap entries.
WithinCap(s) ==
    /\ Len(Stops(s)) <= StopCap
    /\ s.has_saved => Len(SavedStops(s)) <= StopCap
    /\ s.calculate_tsp => Len(s.tsp_optional_stops) \in 1..StopCap

\* C29: whatever sequence of Add Stop, Remove Stop, Clear All Stops, Save
\* Route, Load Route and Calculate runs led here, the stop list, the saved
\* list and the list Calculate handed to the optimizer hold at most ten
\* stops after the next run; and a run that handles Add Stop while ten stops
\* are present leaves every list, and which list is the current one, as it was.
C29_AtMostTen ==
    [][/\ WithinCap(session')
       /\ (Len(Stops(session)) = StopCap /\ session'.last \in AddOutcomes) =>
              /\ session'.last = "add_full"
              /\ session'.heap = session.heap
              /\ session'.stops = session.stops]_vars

\* Ten stops, saved and handed to the optimizer, and one more Add Stop was
\* just refused.
C29_Witness ==
    /\ session.open
    /\ session.last = "add_full"
    /\ Len(Stops(session)) = StopCap
    /\ session.has_saved /\ Len(SavedStops(session)) = StopCap
    /\ session.calculate_tsp /\ Len(session.tsp_optional_stops) = StopCap

-----------------------------------------------------------------------------
(* C30: Load Route gives back what Save Route saved *)

\* The texts are those of the saved route: nothing else was typed since the
\* save.
TextsAsSaved(s) ==
    /\ s.origin = s.saved_route.origin
    /\ s.destination = s.saved_route.destination

\* The saved route by value: its origin, its destination and its stops.
SavedValues(s) ==
    [origin |-> s.saved_route.origin, destination |-> s.saved_route.destination,
     stops |-> SavedStops(s)]

\* The outcomes of a run that handled Add Stop, Remove Stop or Clear All Stops.
EditOutcomes == AddOutcomes \cup {"remove", "clear"}

\* C30: a run that handles Add Stop, Remove Stop or Clear All Stops leaves a
\* saved route with the values it had, so that they stay those of the moment
\* of the save; and a Load Route run that follows such runs leaves the page
\* with the saved origin, the saved destination and the saved stops.
C30_LoadRestores ==
    [][/\ (session.has_saved /\ session'.last \in EditOutcomes) =>
              SavedValues(session') = SavedValues(session)
       /\ (session.has_saved /\ TextsAsSaved(session) /\ session'.last = "load") =>
              /\ SavedValues(session') = SavedValues(session)
              /\ TextsAsSaved(session')
              /\ Stops(session') = SavedStops(session)]_vars

====
